---- MODULE Spec2Model ----
(***************************************************************************)
(* The rollup accumulation and flush engine of cassabon's StoreManager     *)
(* (src/datastore/storemanager.go): the event loop run(), the timer()      *)
(* goroutine, accumulate(), flush() and resetRollupData(), with the        *)
(* channels that connect them.                                             *)
(*                                                                         *)
(* Time is counted in milliseconds.  Metric values are integers, bucket    *)
(* values are exact rationals <<numerator, denominator>>.                  *)
(***************************************************************************)
EXTENDS Integers, Sequences, FiniteSets, Bags, TLC

(* ------------------------------ bounds -------------------------------- *)

\* How many times the clock may advance in one behaviour.
MaxTicks == 2

\* How many samples the listener delivers on the MetricStore channel.
MaxSamples == 2

\* How many times the clock may advance when no samples are delivered.
MaxTimerTicks == 4

\* How many samples one bucket takes between two flushes, when the fold is
\* studied alone.
MaxFoldLen == 3

\* The most clock steps in a run of the flush cycle with samples.
MaxCycleTicks == 3

(* ------------------------ durations (package time) --------------------- *)

Millisecond == 1
Second == 1000
Minute == 60000

(* --------------------------- configuration ----------------------------- *)

\* config.ROLLUP_CATCHALL
CATCHALL == "CATCHALL"

AVERAGE == "AVERAGE"
MAX == "MAX"
MIN == "MIN"
SUM == "SUM"

\* A path is the sequence of its dot-separated nodes.
FooX == <<"foo", "x">>
BarX == <<"bar", "x">>
Paths == {FooX, BarX}

\* Metric values delivered by the listener.
Values == {-1, 2}

\* The expression key "^foo\." and the compiled regular expression it keys.
FooExpr == "^foo\\."

\* regexp.MatchString for the anchored literal-prefix expressions of the
\* configuration: "^foo\." matches the paths whose first node is foo.
MatchString(expression, path) ==
    /\ Len(path) > 1
    /\ path[1] = expression.prefix

\* sm.rollupPriority: first matched expression wins, catchall last.
rollupPriority == <<FooExpr, CATCHALL>>

\* The rollup definitions (config.G.Rollup) for a choice of methods.
RollupDefs(fooMethod, catchMethod) ==
    (FooExpr :> [Method |-> fooMethod,
                 Expression |-> [prefix |-> "foo"],
                 Windows |-> << [Window |-> 3, Retention |-> 9, Table |-> "rollup_9"] >>])
    @@
    (CATCHALL :> [Method |-> catchMethod,
                  Expression |-> [prefix |-> ""],
                  Windows |-> << [Window |-> 2, Retention |-> 8, Table |-> "rollup_8"],
                                 [Window |-> 4, Retention |-> 16, Table |-> "rollup_16"] >>])

\* The configurations the model is run with.
Configs == {RollupDefs(MAX, SUM)}

\* Two more expression keys: one that matches the same paths as "^foo\.",
\* and one for the paths whose first node is bar.
FooPlusExpr == "^fo+\\."
BarExpr == "^bar\\."

\* Rollup definitions with several expressions, the priority lists over
\* them (any choice and order of expressions, then the catchall), and the
\* paths that getExpression is studied with.
ClassifyDefs ==
    RollupDefs(MAX, SUM)
    @@ (FooPlusExpr :> [Method |-> MIN,
                        Expression |-> [prefix |-> "foo"],
                        Windows |-> << [Window |-> 5, Retention |-> 10, Table |-> "rollup_10"] >>])
    @@ (BarExpr :> [Method |-> AVERAGE,
                    Expression |-> [prefix |-> "bar"],
                    Windows |-> << [Window |-> 6, Retention |-> 12, Table |-> "rollup_12"] >>])

RECURSIVE Orders(_)
Orders(S) ==
    IF S = {} THEN { << >> }
    ELSE UNION { { << e >> \o t : t \in Orders(S \ {e}) } : e \in S }

ClassifyPriorities ==
    { order \o << CATCHALL >> :
        order \in UNION { Orders(S) : S \in SUBSET (DOMAIN ClassifyDefs \ {CATCHALL}) } }

ClassifyPaths == Paths \cup { <<"foo", "y">>, <<"baz", "x">> }

\* The rollup definitions read queries are studied with: windows and
\* retentions of whole seconds.
QueryDefs ==
    (FooExpr :> [Method |-> MAX,
                 Expression |-> [prefix |-> "foo"],
                 Windows |-> << [Window |-> 3 * Second, Retention |-> 9 * Second,
                                 Table |-> "rollup_9"] >>])
    @@
    (CATCHALL :> [Method |-> SUM,
                  Expression |-> [prefix |-> ""],
                  Windows |-> << [Window |-> 2 * Second, Retention |-> 8 * Second,
                                  Table |-> "rollup_8"],
                                 [Window |-> 4 * Second, Retention |-> 16 * Second,
                                  Table |-> "rollup_16"] >>])

\* The path "" of a query.
EmptyPath == << >>

\* q.Query: no path, the empty path, or one or two different paths.
Queries ==
    { << >>, << EmptyPath >> }
    \cup { << p >> : p \in Paths }
    \cup { pr \in Paths \X Paths : pr[1] # pr[2] }

\* time.Since(time.Unix(q.From, 0)): below, at, between and above the
\* retentions of QueryDefs.
TimeDeltas == { 5 * Second, 8 * Second, 9 * Second, 12 * Second, 20 * Second }

\* What the backing store holds for a path between q.From and q.To, in any
\* table.
StoredRows == { << >>, << 1 >>, << 2, 3 >> }

\* The configurations and the metric values the fold is studied with.
FoldConfigs == {RollupDefs(MAX, SUM), RollupDefs(SUM, MIN), RollupDefs(AVERAGE, MAX)}
FoldValues == {-2, -1, 1, 2}

(* ------------------------------ state ---------------------------------- *)

VARIABLES
    rollup,      \* sm.rollup: the rollup definitions copied in by Init()
    now,         \* the wall clock, time.Now()
    ticks,       \* how many times the clock has advanced
    heap,        \* the rollup objects allocated by accumulate, by address
    byPath,      \* sm.byPath: path -> address of its rollup
    byExpr,      \* sm.byExpr: expression -> runlist (nextWriteTime, path -> address)
    runPc,       \* where run() is: "select", "send", "reset", "rsp", "done"
    metric,      \* the metric accumulate() is handling while blocked in its send
    timerPc,     \* where timer() is: "idle", "sleeping", "loop", "done"
    deadline,    \* when the time.After of the sleeping timer fires
    timeout,     \* sm.timeout, capacity 1: TRUE when it holds a notification
    onExit,      \* config.G.OnExit has been closed
    wg,          \* the WaitGroup counter
    peerReq,     \* the peer-change requester: "idle", "requested", "waiting"
    indexPc,     \* the index writer: "run" or "done"
    samples,     \* how many samples the listener has delivered
    batch,       \* the rows appended to the batch writer by the flush that just returned
    last,        \* the operation the event loop has just done
    unwritten,   \* per bucket: samples folded and not yet appended in a row
    lost,        \* a bucket holding samples was cleared or dropped unappended
    dup,         \* a row was appended for a bucket holding no unappended sample
    emitted,     \* per path: sends on the IndexStore channel, whole run
    emittedNow,  \* per path: sends on the IndexStore channel since the last reset
    due,         \* when the duration last handed to setTimeout ends (t + d), until
                 \* the timer fires on sm.timeout; NoDue when none is outstanding
    acc,         \* one rollup object, when the fold is studied alone
    seen,        \* per window of acc: the samples folded since the bucket was emptied
    cls,         \* one call of getExpression: priority list, path and result
    qy,          \* one read query: its path list, timeDelta and the stored rows
    wk,          \* the read worker running queryGET for qy
    ch,          \* q.Channel, the response channel of qy (capacity 1)
    fl,          \* a flush taken one backing-store call at a time
    rs           \* one resolve of a path query against the sorted index

\* The state of run() and timer() and their bookkeeping.
storeVars == << rollup, now, ticks, heap, byPath, byExpr, runPc, metric, timerPc,
                deadline, timeout, onExit, wg, peerReq, indexPc, samples,
                batch, last, unwritten, lost, dup, emitted, emittedNow, due >>

\* The state of the parts studied apart from run() and timer().
foldVars == << acc, seen >>
classifyVars == << cls >>
queryVars == << qy, wk, ch >>
writeVars == << fl >>
resolveVars == << rs >>

vars == << storeVars, foldVars, classifyVars, queryVars, writeVars, resolveVars >>

(* ------------------------------ helpers -------------------------------- *)

Range(f) == {f[x] : x \in DOMAIN f}

MinOf(S) == CHOOSE x \in S : \A y \in S : x <= y

RECURSIVE GCD(_, _)
GCD(a, b) == IF b = 0 THEN a ELSE GCD(b, a % b)

Abs(n) == IF n < 0 THEN -n ELSE n

\* The rational n/d in lowest terms, d > 0.
Rat(n, d) ==
    LET g == GCD(Abs(n), d) IN << n \div g, d \div g >>

Zero == << 0, 1 >>

RatLess(a, b) == a[1] * b[2] < b[1] * a[2]

RatOf(x) == << x, 1 >>

(* ---------------------- window boundaries (helpers) -------------------- *)

\* nextTimeBoundary: the smallest multiple of windowSize that is later than
\* baseTime.
nextTimeBoundary(baseTime, windowSize) ==
    (baseTime \div windowSize) * windowSize + windowSize

\* The window indexes any rollup definition uses.
WindowIdx == UNION { DOMAIN rollup[e].Windows : e \in DOMAIN rollup }

Buckets == Paths \X WindowIdx

(* --------------------------- resetRollupData --------------------------- *)

\* A faulty variant: each window's boundary is rounded down, not up.
ResetByExprRoundedDown(baseTime) ==
    [expr \in DOMAIN rollup |->
        [nextWriteTime |->
            [i \in DOMAIN rollup[expr].Windows |->
                (baseTime \div rollup[expr].Windows[i].Window)
                    * rollup[expr].Windows[i].Window],
         path |-> << >>]]

\* The run lists resetRollupData builds at baseTime: one per expression,
\* no paths, each window's next boundary.
ResetByExpr(baseTime) ==
    [expr \in DOMAIN rollup |->
        [nextWriteTime |->
            [i \in DOMAIN rollup[expr].Windows |->
                nextTimeBoundary(baseTime, rollup[expr].Windows[i].Window)],
         path |-> << >>]]

(* ----------------------------- getExpression --------------------------- *)

\* A faulty variant: the loop does not stop at the first match, so the
\* catchall at the end always wins.
ClassifyNoBreak(priority, path) ==
    IF Len(priority) = 0 THEN "" ELSE priority[Len(priority)]

\* The loop over the priority list leaves expr at the first non-catchall
\* expression that matches, or at the last element of the list.
Classify(priority, path) ==
    LET hits == { k \in DOMAIN priority :
                    /\ priority[k] # CATCHALL
                    /\ MatchString(rollup[priority[k]].Expression, path) }
    IN  IF hits # {} THEN priority[MinOf(hits)]
        ELSE IF Len(priority) = 0 THEN ""
        ELSE priority[Len(priority)]

\* getExpression(path), over sm.rollupPriority
getExpression(path) == Classify(rollupPriority, path)

(* ------------------------------ accumulate ----------------------------- *)

\* A free address for new(rollup).
NewAddr == MinOf({ a \in 1..(Cardinality(DOMAIN heap) + 1) : a \notin DOMAIN heap })

\* new(rollup) with expr set and all-zero count and value vectors.
NewRollup(expr) ==
    [expr  |-> expr,
     count |-> [i \in DOMAIN rollup[expr].Windows |-> 0],
     value |-> [i \in DOMAIN rollup[expr].Windows |-> Zero]]

\* A faulty variant: the rollup is not recorded in byPath.
InsertByPathDropped(path, addr) == byPath

\* sm.byPath[metric.Path] = currentRollup
InsertByPath(path, addr) == byPath @@ (path :> addr)

\* A faulty variant: the rollup is always filed under the catchall.
InsertByExprUnderCatchall(expr, path, addr) ==
    [byExpr EXCEPT ![CATCHALL].path = @ @@ (path :> addr)]

\* sm.byExpr[expr].path[metric.Path] = currentRollup
InsertByExpr(expr, path, addr) ==
    [byExpr EXCEPT ![expr].path = @ @@ (path :> addr)]

\* A faulty variant: the lookup never finds the path.
FoundNever(path) == FALSE

\* found: the path is a key of byPath.
Found(path) == path \in DOMAIN byPath

\* A faulty variant: MIN without the test for the empty bucket.
FoldValueMinUnguarded(method, v, c, x) ==
    CASE method = AVERAGE -> Rat(v[1] * c + x * v[2], v[2] * (c + 1))
      [] method = MAX     -> IF RatLess(v, RatOf(x)) THEN RatOf(x) ELSE v
      [] method = MIN     -> IF RatLess(RatOf(x), v) THEN RatOf(x) ELSE v
      [] method = SUM     -> Rat(v[1] + x * v[2], v[2])
      [] OTHER            -> v

\* One bucket's new value under the expression's method.
FoldValue(method, v, c, x) ==
    CASE method = AVERAGE -> Rat(v[1] * c + x * v[2], v[2] * (c + 1))
      [] method = MAX     -> IF RatLess(v, RatOf(x)) THEN RatOf(x) ELSE v
      [] method = MIN     -> IF RatLess(RatOf(x), v) \/ c = 0 THEN RatOf(x) ELSE v
      [] method = SUM     -> Rat(v[1] + x * v[2], v[2])
      [] OTHER            -> v

\* The rollup after the metric value x was applied to each of its buckets.
Fold(r, x) ==
    [r EXCEPT
       !.value = [i \in DOMAIN r.value |->
                    FoldValue(rollup[r.expr].Method, r.value[i], r.count[i], x)],
       !.count = [i \in DOMAIN r.count |-> r.count[i] + 1]]

(* -------------------------------- flush -------------------------------- *)

\* A faulty variant: a window closing at baseTime counts as closed.
WindowClosedNotAfter(windowEnd, baseTime, terminating) ==
    windowEnd <= baseTime \/ terminating

\* A faulty variant: a terminating flush leaves open windows alone.
WindowClosedOnly(windowEnd, baseTime, terminating) ==
    windowEnd < baseTime

\* If the window has closed, or if terminating, process and clear the data.
WindowClosed(windowEnd, baseTime, terminating) ==
    windowEnd < baseTime \/ terminating

\* A faulty variant: rows are always stamped with the window's boundary.
StatTimeWindowEnd(windowEnd, baseTime, terminating) == windowEnd

\* statTime: baseTime when terminating, else the window's closing boundary.
StatTime(windowEnd, baseTime, terminating) ==
    IF terminating THEN baseTime ELSE windowEnd

\* A faulty variant: a bucket holding a single sample is not written.
HasDataMoreThanOne(r, i) == r.count[i] > 1

\* Data has accumulated while this window was open; write it.
HasData(r, i) == r.count[i] > 0

\* The windows (expr, i) this flush processes.
Processed(baseTime, terminating) ==
    { w \in (DOMAIN byExpr) \X WindowIdx :
        /\ w[2] \in DOMAIN byExpr[w[1]].nextWriteTime
        /\ WindowClosed(byExpr[w[1]].nextWriteTime[w[2]], baseTime, terminating) }

\* The buckets (expr, i, path) this flush visits, and those it appends.
Visited(baseTime, terminating) ==
    { b \in (DOMAIN byExpr) \X WindowIdx \X Paths :
        /\ << b[1], b[2] >> \in Processed(baseTime, terminating)
        /\ b[3] \in DOMAIN byExpr[b[1]].path }

Appended(baseTime, terminating) ==
    { b \in Visited(baseTime, terminating) :
        HasData(heap[byExpr[b[1]].path[b[3]]], b[2]) }

\* bw.Prepare(table); bw.Append(path, statTime, rollup.value[i])
Row(b, baseTime, terminating) ==
    [table |-> rollup[b[1]].Windows[b[2]].Table,
     path  |-> b[3],
     time  |-> StatTime(byExpr[b[1]].nextWriteTime[b[2]], baseTime, terminating),
     value |-> heap[byExpr[b[1]].path[b[3]]].value[b[2]]]

\* The rows handed to the batch writer, with how often each was appended.
FlushBatch(baseTime, terminating) ==
    LET A == Appended(baseTime, terminating)
        rows == { Row(b, baseTime, terminating) : b \in A }
    IN  [r \in rows |-> Cardinality({ b \in A : Row(b, baseTime, terminating) = r })]

\* A faulty variant: the value is zeroed but the count is kept.
ClearedValueOnly(r, i) == [r EXCEPT !.value[i] = Zero]

\* Ensure the bucket is empty for the next open window.
Cleared(r, i) == [r EXCEPT !.count[i] = 0, !.value[i] = Zero]

RECURSIVE ClearAll(_, _)
ClearAll(r, idx) ==
    IF idx = {} THEN r
    ELSE LET i == MinOf(idx) IN ClearAll(Cleared(r, i), idx \ {i})

FlushHeap(baseTime, terminating) ==
    [a \in DOMAIN heap |->
        ClearAll(heap[a],
                 { i \in DOMAIN heap[a].count :
                     \E b \in Visited(baseTime, terminating) :
                        b[2] = i /\ byExpr[b[1]].path[b[3]] = a })]

\* A faulty variant: every window gets a new closing time, processed or not.
FlushByExprEveryWindow(baseTime, terminating) ==
    [expr \in DOMAIN byExpr |->
        [byExpr[expr] EXCEPT !.nextWriteTime =
            [i \in DOMAIN @ |->
                nextTimeBoundary(baseTime, rollup[expr].Windows[i].Window)]]]

\* Set a new window closing time for the just-cleared window.
FlushByExpr(baseTime, terminating) ==
    [expr \in DOMAIN byExpr |->
        [byExpr[expr] EXCEPT !.nextWriteTime =
            [i \in DOMAIN @ |->
                IF << expr, i >> \in Processed(baseTime, terminating)
                THEN nextTimeBoundary(baseTime, rollup[expr].Windows[i].Window)
                ELSE @[i]]]]

\* The earliest window closing time, at most a minute away.
NextFlush(baseTime, terminating) ==
    LET after == FlushByExpr(baseTime, terminating)
    IN  MinOf({ baseTime + Minute } \cup
              UNION { Range(after[expr].nextWriteTime) : expr \in DOMAIN after })

\* Convert window closing time to a duration, and do a sanity check.
DelayOf(nextFlush, baseTime) ==
    LET delay == nextFlush - baseTime
    IN  IF delay < 0 THEN Millisecond ELSE delay

Delay(baseTime, terminating) ==
    DelayOf(NextFlush(baseTime, terminating), baseTime)

(* ------------------- bookkeeping of samples and rows ------------------- *)

\* The buckets (path, i) a flush visits and those it appends a row for.
VisitedKeys(baseTime, terminating) ==
    { << b[3], b[2] >> : b \in Visited(baseTime, terminating) }

AppendedKeys(baseTime, terminating) ==
    { << b[3], b[2] >> : b \in Appended(baseTime, terminating) }

\* One more sample folded into each bucket of the path's rollup r.
Folded(path, r) ==
    [k \in Buckets |->
        IF k[1] = path /\ k[2] \in DOMAIN r.count
        THEN unwritten[k] + 1 ELSE unwritten[k]]

NoMetric == [Path |-> << >>, Value |-> 0]

NoDue == -1

\* What the event loop has just done: a flush (with its baseTime), a reset
\* (with its baseTime), or an accumulate (with its path, and whether the
\* path was found in byPath).
FlushOp(terminating) ==
    [op |-> "flush", terminating |-> terminating, baseTime |-> now,
     path |-> << >>, found |-> FALSE]

ResetOp ==
    [op |-> "reset", terminating |-> FALSE, baseTime |-> now,
     path |-> << >>, found |-> FALSE]

AccumulateOp(op, path, found) ==
    [op |-> op, terminating |-> FALSE, baseTime |-> 0,
     path |-> path, found |-> found]

StartOp == AccumulateOp("start", << >>, FALSE)

(* -------------------------------- Init --------------------------------- *)

\* The state after Init() and Start(): the timer has received the first
\* duration, time.Second, and run() has reset the rollup data.
InitStore(configs) ==
    /\ rollup \in configs
    /\ now = 0
    /\ ticks = 0
    /\ heap = << >>
    /\ byPath = << >>
    /\ byExpr = ResetByExpr(0)
    /\ runPc = "select"
    /\ metric = NoMetric
    /\ timerPc = "sleeping"
    /\ deadline = Second
    /\ timeout = FALSE
    /\ onExit = FALSE
    /\ wg = 2
    /\ peerReq = "idle"
    /\ indexPc = "run"
    /\ samples = 0
    /\ batch = EmptyBag
    /\ last = StartOp
    /\ unwritten = [k \in Buckets |-> 0]
    /\ lost = FALSE
    /\ dup = FALSE
    /\ emitted = [p \in Paths |-> 0]
    /\ emittedNow = [p \in Paths |-> 0]
    /\ due = Second

\* No rollup is studied apart.
FoldIdle ==
    /\ acc = << >>
    /\ seen = << >>

\* getExpression is not studied apart.
ClassifyIdle == cls = << >>

\* No read query is studied.
QueryIdle ==
    /\ qy = << >>
    /\ wk = << >>
    /\ ch = << >>

\* No flush is taken apart.
WriteIdle == fl = << >>


Init ==
    /\ InitStore(Configs)
    /\ FoldIdle
    /\ ClassifyIdle
    /\ QueryIdle
    /\ WriteIdle
    /\ rs = << >>

\* What run() and timer() never change: the configuration, and the state
\* of the parts studied apart from them.
apartVars == << foldVars, classifyVars, queryVars, writeVars, resolveVars >>
config == << rollup, apartVars >>
clock == << now, ticks >>
timerVars == << timerPc, deadline >>
indexVars == << emitted, emittedNow, indexPc >>
rowVars == << batch, unwritten, lost, dup >>

(* ------------------------ the event loop, run() ------------------------ *)

\* The body of flush(terminating) up to the timer submission.
FlushBody(terminating) ==
    /\ heap' = FlushHeap(now, terminating)
    /\ byExpr' = FlushByExpr(now, terminating)
    /\ batch' = FlushBatch(now, terminating)
    /\ unwritten' = [k \in Buckets |->
                        IF k \in AppendedKeys(now, terminating) THEN 0 ELSE unwritten[k]]
    /\ lost' = (lost \/ \E k \in VisitedKeys(now, terminating) \ AppendedKeys(now, terminating) :
                            unwritten[k] > 0)
    /\ dup' = (dup \/ \E k \in AppendedKeys(now, terminating) : unwritten[k] = 0)
    /\ last' = FlushOp(terminating)

\* The non-blocking send on setTimeout goes through when the timer is
\* blocked in its outer select; a timer woken by OnExit takes that case.
TimerReceiving == timerPc = "idle" /\ ~onExit

\* case <-sm.timeout: sm.flush(false)
RunTimeout ==
    /\ runPc = "select"
    /\ timeout
    /\ timeout' = FALSE
    /\ FlushBody(FALSE)
    /\ due' = now + Delay(now, FALSE)
    /\ IF TimerReceiving
       THEN timerPc' = "sleeping" /\ deadline' = now + Delay(now, FALSE)
       ELSE UNCHANGED timerVars
    /\ UNCHANGED << config, clock, byPath, runPc, metric, onExit, wg, peerReq,
                    samples, indexVars >>

\* The send on the IndexStore channel and the rest of accumulate, for the
\* metric whose rollup (currentRollup) is at addr in heap h.
SendAndFold(h, addr, path, value) ==
    /\ emitted' = [emitted EXCEPT ![path] = @ + 1]
    /\ emittedNow' = [emittedNow EXCEPT ![path] = @ + 1]
    /\ heap' = [h EXCEPT ![addr] = Fold(@, value)]
    /\ unwritten' = Folded(path, h[addr])
    /\ runPc' = "select"
    /\ metric' = NoMetric
    /\ last' = AccumulateOp("accumulate", path, FALSE)

\* The index writer is running: it takes metrics from the IndexStore
\* channel, so a send blocked on the channel goes through in the end.
IndexReceiving == indexPc = "run"

\* case metric := <-config.G.Channels.MetricStore: sm.accumulate(metric)
\* room: the IndexStore channel takes a send at once (its buffer has room or
\* the index writer is receiving); if not, accumulate blocks in the send.
RunMetric(path, value, room) ==
    /\ runPc = "select"
    /\ samples < MaxSamples
    /\ samples' = samples + 1
    /\ IF Found(path)
       THEN /\ heap' = [heap EXCEPT ![byPath[path]] = Fold(@, value)]
            /\ unwritten' = Folded(path, heap[byPath[path]])
            /\ last' = AccumulateOp("accumulate", path, TRUE)
            /\ ~room
            /\ UNCHANGED << byPath, byExpr, runPc, metric, indexVars >>
       ELSE LET expr == getExpression(path)
                addr == NewAddr
                h == heap @@ (addr :> NewRollup(expr))
            IN  /\ byPath' = InsertByPath(path, addr)
                /\ byExpr' = InsertByExpr(expr, path, addr)
                /\ IF room
                   THEN SendAndFold(h, addr, path, value) /\ UNCHANGED indexPc
                   ELSE /\ heap' = h
                        /\ runPc' = "send"
                        /\ metric' = [Path |-> path, Value |-> value]
                        /\ last' = AccumulateOp("insert", path, FALSE)
                        /\ UNCHANGED << indexVars, unwritten >>
    /\ batch' = EmptyBag
    /\ UNCHANGED << config, clock, timerVars, timeout, onExit, wg, peerReq, lost, dup,
                    due >>

\* accumulate, blocked in config.G.Channels.IndexStore <- metric, goes on
\* when the index writer has made room.
RunIndexSend ==
    /\ runPc = "send"
    /\ IndexReceiving
    /\ SendAndFold(heap, byPath[metric.Path], metric.Path, metric.Value)
    /\ UNCHANGED << config, clock, byPath, byExpr, timerVars, timeout, onExit, wg,
                    peerReq, indexPc, samples, batch, lost, dup, due >>

\* case <-config.G.OnPeerChangeReq: sm.flush(true)
RunPeerChange ==
    /\ runPc = "select"
    /\ peerReq = "requested"
    /\ peerReq' = "waiting"
    /\ FlushBody(TRUE)
    /\ runPc' = "reset"
    /\ UNCHANGED << config, clock, byPath, metric, timerVars, timeout, onExit, wg,
                    samples, indexVars, due >>

\* sm.resetRollupData(), after the flush of a peer change
RunReset ==
    /\ runPc = "reset"
    /\ heap' = << >>
    /\ byPath' = << >>
    /\ byExpr' = ResetByExpr(now)
    /\ unwritten' = [k \in Buckets |-> 0]
    /\ lost' = (lost \/ \E k \in Buckets : unwritten[k] > 0)
    /\ emittedNow' = [p \in Paths |-> 0]
    /\ batch' = EmptyBag
    /\ runPc' = "rsp"
    /\ last' = ResetOp
    /\ UNCHANGED << config, clock, metric, timerVars, timeout, onExit, wg, peerReq,
                    samples, dup, emitted, indexPc, due >>

\* config.G.OnPeerChangeRsp <- struct{}{}: the requester is unblocked
RunPeerChangeRsp ==
    /\ runPc = "rsp"
    /\ peerReq = "waiting"
    /\ peerReq' = "idle"
    /\ runPc' = "select"
    /\ UNCHANGED << config, clock, heap, byPath, byExpr, metric, timerVars, timeout,
                    onExit, wg, samples, last, rowVars, indexVars, due >>

\* case <-config.G.OnExit: sm.flush(true); sm.wg.Done(); return
RunExit ==
    /\ runPc = "select"
    /\ onExit
    /\ FlushBody(TRUE)
    /\ wg' = wg - 1
    /\ runPc' = "done"
    /\ UNCHANGED << config, clock, byPath, metric, timerVars, timeout, onExit, peerReq,
                    samples, indexVars, due >>

(* --------------------------- the timer, timer() ------------------------ *)

\* case <-config.G.OnExit (outer select): sm.wg.Done(); return
TimerExit ==
    /\ timerPc = "idle"
    /\ onExit
    /\ timerPc' = "done"
    /\ wg' = wg - 1
    /\ UNCHANGED << config, clock, heap, byPath, byExpr, runPc, metric, deadline,
                    timeout, onExit, peerReq, samples, last, rowVars, indexVars, due >>

\* case <-config.G.OnExit (inner select): the sleep is interrupted
TimerInterrupt ==
    /\ timerPc = "sleeping"
    /\ onExit
    /\ timerPc' = "loop"
    /\ deadline' = 0
    /\ UNCHANGED << config, clock, heap, byPath, byExpr, runPc, metric, timeout, onExit,
                    wg, peerReq, samples, last, rowVars, indexVars, due >>

\* case <-time.After(duration): non-blocking send on sm.timeout (capacity 1)
TimerFire ==
    /\ timerPc = "sleeping"
    /\ now >= deadline
    /\ timeout' = TRUE
    /\ timerPc' = "loop"
    /\ deadline' = 0
    /\ due' = NoDue
    /\ UNCHANGED << config, clock, heap, byPath, byExpr, runPc, metric, onExit, wg,
                    peerReq, samples, last, rowVars, indexVars >>

\* The for loop comes round to the outer select: the timer is receiving on
\* setTimeout again.
TimerLoop ==
    /\ timerPc = "loop"
    /\ timerPc' = "idle"
    /\ UNCHANGED << config, clock, heap, byPath, byExpr, runPc, metric, deadline,
                    timeout, onExit, wg, peerReq, samples, last, rowVars, indexVars,
                    due >>

(* --------------------------- the environment --------------------------- *)

\* The clock advances by a millisecond, or up to the sleeping timer's
\* deadline; a time.After fires when its deadline comes.
TimeSteps ==
    { 1 } \cup (IF timerPc = "sleeping" /\ deadline > now THEN { deadline - now } ELSE {})

Tick(d, max) ==
    /\ ticks < max
    /\ timerPc = "sleeping" => now + d <= deadline
    /\ now' = now + d
    /\ ticks' = ticks + 1
    /\ UNCHANGED << config, heap, byPath, byExpr, runPc, metric, timerVars, timeout,
                    onExit, wg, peerReq, samples, last, rowVars, indexVars, due >>

\* close(config.G.OnExit)
SignalExit ==
    /\ ~onExit
    /\ onExit' = TRUE
    /\ UNCHANGED << config, clock, heap, byPath, byExpr, runPc, metric, timerVars,
                    timeout, wg, peerReq, samples, last, rowVars, indexVars, due >>

\* config.G.OnPeerChangeReq <- struct{}{}: the requester waits for the loop
PeerChangeReq ==
    /\ peerReq = "idle"
    /\ peerReq' = "requested"
    /\ UNCHANGED << config, clock, heap, byPath, byExpr, runPc, metric, timerVars,
                    timeout, onExit, wg, samples, last, rowVars, indexVars, due >>

\* The index writer returns on config.G.OnExit, as run() and timer() do.
IndexWriterExit ==
    /\ indexPc = "run"
    /\ onExit
    /\ indexPc' = "done"
    /\ UNCHANGED << config, clock, heap, byPath, byExpr, runPc, metric, timerVars,
                    timeout, onExit, wg, peerReq, samples, last, rowVars, emitted,
                    emittedNow, due >>

(* ---------------------------- specification ---------------------------- *)

Next ==
    \/ RunTimeout
    \/ \E path \in Paths, value \in Values, room \in BOOLEAN : RunMetric(path, value, room)
    \/ RunIndexSend
    \/ RunPeerChange
    \/ RunReset
    \/ RunPeerChangeRsp
    \/ RunExit
    \/ TimerExit
    \/ TimerInterrupt
    \/ TimerFire
    \/ TimerLoop
    \/ \E d \in TimeSteps : Tick(d, MaxTicks)
    \/ SignalExit
    \/ PeerChangeReq
    \/ IndexWriterExit

Spec == Init /\ [][Next]_vars

\* The timer and the flush cycle alone: no samples are delivered and no
\* peer change is requested.
NextTimer ==
    \/ RunTimeout
    \/ RunExit
    \/ TimerExit
    \/ TimerInterrupt
    \/ TimerFire
    \/ TimerLoop
    \/ \E d \in TimeSteps : Tick(d, MaxTimerTicks)
    \/ SignalExit

SpecTimer == Init /\ [][NextTimer]_vars

(* ------------------- the fold of accumulate, alone --------------------- *)

\* One path's rollup, new, under any expression of any configuration.
InitFold ==
    /\ InitStore(FoldConfigs)
    /\ acc \in { NewRollup(expr) : expr \in DOMAIN rollup }
    /\ seen = [i \in DOMAIN acc.count |-> << >>]
    /\ ClassifyIdle
    /\ QueryIdle
    /\ WriteIdle
    /\ rs = << >>

\* accumulate for a path that is found: the metric value x is applied to
\* each bucket of its rollup.
FoldSample(x) ==
    /\ \A i \in DOMAIN seen : Len(seen[i]) < MaxFoldLen
    /\ acc' = Fold(acc, x)
    /\ seen' = [i \in DOMAIN seen |-> Append(seen[i], x)]
    /\ UNCHANGED << storeVars, classifyVars, queryVars, writeVars, resolveVars >>

\* flush processes window i: the path's bucket i is emptied.
FoldClear(i) ==
    /\ seen[i] # << >>
    /\ acc' = Cleared(acc, i)
    /\ seen' = [seen EXCEPT ![i] = << >>]
    /\ UNCHANGED << storeVars, classifyVars, queryVars, writeVars, resolveVars >>

NextFold ==
    \/ \E x \in FoldValues : FoldSample(x)
    \/ \E i \in DOMAIN seen : FoldClear(i)

SpecFold == InitFold /\ [][NextFold]_vars

\* The largest, the smallest and the sum of a sequence of numbers.
SeqMax(q) == CHOOSE x \in Range(q) : \A y \in Range(q) : y <= x
SeqMin(q) == CHOOSE x \in Range(q) : \A y \in Range(q) : x <= y
RECURSIVE SeqSum(_)
SeqSum(q) == IF q = << >> THEN 0 ELSE Head(q) + SeqSum(Tail(q))

(* -------------------------- getExpression, alone ----------------------- *)

\* A configuration with several expressions, run() past its first
\* resetRollupData, and one call of getExpression to come.
InitClassify ==
    /\ InitStore({ClassifyDefs})
    /\ FoldIdle
    /\ QueryIdle
    /\ WriteIdle
    /\ rs = << >>
    /\ cls \in [priority : ClassifyPriorities, path : ClassifyPaths,
                 expr : {""}, returned : {FALSE}]

\* getExpression(path) over the priority list, and its return value.
GetExpression ==
    /\ ~cls.returned
    /\ cls' = [cls EXCEPT !.expr = Classify(cls.priority, cls.path),
                          !.returned = TRUE]
    /\ UNCHANGED << storeVars, foldVars, queryVars, writeVars, resolveVars >>

NextClassify == GetExpression

SpecClassify == InitClassify /\ [][NextClassify]_vars

\* The positions of the priority list, before the catchall at its end,
\* whose regular expression matches the path.
Matching(priority, path) ==
    { k \in 1..(Len(priority) - 1) :
        MatchString(rollup[priority[k]].Expression, path) }

(* ------------------------- queryGET, a read worker --------------------- *)

\* A query handed to a worker by go sm.query(query): its response channel
\* is open and empty.
InitQuery ==
    /\ InitStore({QueryDefs})
    /\ FoldIdle
    /\ ClassifyIdle
    /\ WriteIdle
    /\ rs = << >>
    /\ qy \in [Query : Queries, timeDelta : TimeDeltas, db : [Paths -> StoredRows]]
    /\ wk = [pc |-> "start", k |-> 1, table |-> "", step |-> 0, statList |-> << >>,
             series |-> << >>, used |-> << >>, writes |-> 0, taken |-> 0,
             probe |-> "none"]
    /\ ch = [closed |-> FALSE, buf |-> << >>]

\* A send on the channel can go on: it has room in its buffer or it is
\* closed (and the send panics).
CanSend == ch.closed \/ Len(ch.buf) < 1

\* if len(q.Query) == 0 || q.Query[0] == ""
NoQuery == IF Len(qy.Query) = 0 THEN TRUE ELSE qy.Query[1] = EmptyPath

\* q.Channel <- APIQueryResponse{AQS_BADREQUEST, ...}; return.  No recover
\* is deferred yet: a send on the closed channel panics out of queryGET.
QueryBadRequest ==
    /\ wk.pc = "start"
    /\ NoQuery
    /\ CanSend
    /\ IF ch.closed
       THEN wk' = [wk EXCEPT !.pc = "panicked"] /\ UNCHANGED ch
       ELSE /\ ch' = [ch EXCEPT !.buf = Append(@, [status |-> "BADREQUEST"])]
            /\ wk' = [wk EXCEPT !.pc = "returned", !.writes = @ + 1]
    /\ UNCHANGED << storeVars, foldVars, classifyVars, writeVars, resolveVars, qy >>

\* The query has paths: on to the loop over them.
QueryBegin ==
    /\ wk.pc = "start"
    /\ ~NoQuery
    /\ wk' = [wk EXCEPT !.pc = "loop"]
    /\ UNCHANGED << storeVars, foldVars, classifyVars, writeVars, resolveVars, qy, ch >>

\* if timeDelta < window.Retention
Covers(window, timeDelta) == timeDelta < window.Retention

\* The windows of the path's rollup definition, in order, up to the break.
Selected(path, timeDelta) ==
    LET windows == rollup[getExpression(path)].Windows
    IN  { n \in DOMAIN windows : Covers(windows[n], timeDelta) }

\* table and step after the loop over the windows: those of the first
\* window that covers timeDelta, or what they were before.
TableAndStep(path, timeDelta, table, step) ==
    LET windows == rollup[getExpression(path)].Windows
        sel == Selected(path, timeDelta)
    IN  IF sel = {} THEN [table |-> table, step |-> step]
        ELSE [table |-> windows[MinOf(sel)].Table,
              step  |-> windows[MinOf(sel)].Window \div Second]

\* The rows iter.Scan yields for the path: none from a query on no table.
Scan(table, path) == IF table = "" THEN << >> ELSE qy.db[path]

\* statList after the scan of one path: what it held, and the rows.
ScanInto(statList, rows) == statList \o rows

\* One round of the loop over q.Query; after the last, the response is
\* built and the recover is deferred.
QueryPath ==
    /\ wk.pc = "loop"
    /\ LET path == qy.Query[wk.k]
           ts == TableAndStep(path, qy.timeDelta, wk.table, wk.step)
           list == ScanInto(wk.statList, Scan(ts.table, path))
       IN  wk' = [wk EXCEPT
                    !.table = ts.table,
                    !.step = ts.step,
                    !.statList = list,
                    !.series = (path :> list) @@ @,
                    !.used = (path :> ts) @@ @,
                    !.k = @ + 1,
                    !.pc = IF wk.k = Len(qy.Query) THEN "probe" ELSE "loop"]
    /\ UNCHANGED << storeVars, foldVars, classifyVars, writeVars, resolveVars, qy, ch >>

\* A faulty variant: the probe takes its receive case whatever the channel.
ProbeReadyAlways == TRUE

\* case <-q.Channel can go on: the channel holds a value or is closed.
ProbeReady == ch.closed \/ ch.buf # << >>

\* select { case <-q.Channel: ... default: ... }
QueryProbe ==
    /\ wk.pc = "probe"
    /\ IF ProbeReady
       THEN /\ wk' = [wk EXCEPT !.pc = "returned",
                                !.probe = IF ch.closed THEN "closed" ELSE "open",
                                !.taken = IF ch.buf # << >> THEN @ + 1 ELSE @]
            /\ ch' = [ch EXCEPT !.buf = IF @ # << >> THEN Tail(@) ELSE @]
       ELSE /\ wk' = [wk EXCEPT !.pc = "write", !.probe = "open"]
            /\ UNCHANGED ch
    /\ UNCHANGED << storeVars, foldVars, classifyVars, writeVars, resolveVars, qy >>

\* q.Channel <- resp, under the deferred recover: a send on the closed
\* channel panics, the panic is recovered and queryGET returns.
QueryWrite ==
    /\ wk.pc = "write"
    /\ CanSend
    /\ IF ch.closed
       THEN wk' = [wk EXCEPT !.pc = "returned"] /\ UNCHANGED ch
       ELSE /\ ch' = [ch EXCEPT !.buf = Append(@, [status |-> "OK", step |-> wk.step,
                                                   series |-> wk.series])]
            /\ wk' = [wk EXCEPT !.pc = "returned", !.writes = @ + 1]
    /\ UNCHANGED << storeVars, foldVars, classifyVars, writeVars, resolveVars, qy >>

\* The requester gives up and closes the response channel.
RequesterClose ==
    /\ ~ch.closed
    /\ ch' = [ch EXCEPT !.closed = TRUE]
    /\ UNCHANGED << storeVars, foldVars, classifyVars, writeVars, resolveVars, qy, wk >>

\* The requester receives the response.
RequesterReceive ==
    /\ ch.buf # << >>
    /\ ch' = [ch EXCEPT !.buf = Tail(@)]
    /\ UNCHANGED << storeVars, foldVars, classifyVars, writeVars, resolveVars, qy, wk >>

NextQuery ==
    \/ QueryBadRequest
    \/ QueryBegin
    \/ QueryPath
    \/ QueryProbe
    \/ QueryWrite
    \/ RequesterClose
    \/ RequesterReceive

SpecQuery == InitQuery /\ [][NextQuery]_vars

(* ------------- flush, one backing-store call at a time ----------------- *)

\* config.G.Cassandra.BatchSize: the configured row counts the batch writer
\* is studied with.
BatchSizes == {1, 2}

\* The batch writer: Prepare(table) starts an empty batch for the table;
\* Append adds a row and, when the batch has reached BatchSize, writes and
\* resets it; Write writes and resets what is left, if anything.  A write that fails
\* returns its error; the batch is dropped all the same.
Prepared(bw, table) == [bw EXCEPT !.table = table, !.rows = {}]

Full(bw, row) == Cardinality(bw.rows \cup {row}) >= bw.batchSize

AfterAppend(bw, row) ==
    [bw EXCEPT !.rows = IF Full(bw, row) THEN {} ELSE bw.rows \cup {row}]

AfterWrite(bw) == [bw EXCEPT !.rows = {}]

\* The rows of a batch, counted once more as attempted.
Attempt(attempted, rows) ==
    attempted (+) [r \in rows |-> 1]

\* The event loop at its select, no flush yet.  One flush is followed from
\* its entry to its return; the samples come before it.
InitWrite ==
    /\ InitStore(Configs)
    /\ FoldIdle
    /\ ClassifyIdle
    /\ QueryIdle
    /\ fl \in [pc : {"idle"}, batchSize : BatchSizes]
    /\ rs = << >>

\* What a flush step leaves alone.
writeRest == << rollup, clock, byPath, metric, timerVars, onExit, wg, peerReq,
                samples, last, rowVars, indexVars, due, foldVars, classifyVars,
                queryVars, resolveVars >>

\* flush(terminating) is entered: baseTime, nextFlush and the batch writer
\* are set up.  A non-terminating flush is entered on a timeout.
WriteBegin(terminating) ==
    /\ runPc = "select"
    /\ fl.pc = "idle"
    /\ terminating \/ timeout
    /\ timeout' = (timeout /\ terminating)
    /\ runPc' = "flush"
    /\ fl' = [pc |-> "window", terminating |-> terminating, baseTime |-> now,
              nextFlush |-> now + Minute,
              exprs |-> DOMAIN byExpr, expr |-> "", i |-> 1, paths |-> {},
              bw |-> [batchSize |-> fl.batchSize, table |-> "", rows |-> {}],
              attempted |-> EmptyBag, failed |-> {}, submitted |-> NoDue,
              expect |-> [heap |-> FlushHeap(now, terminating),
                          byExpr |-> FlushByExpr(now, terminating),
                          delay |-> Delay(now, terminating),
                          rows |-> FlushBatch(now, terminating)]]
    /\ UNCHANGED << writeRest, heap, byExpr >>

\* The windows of the current expression are done.
ExprDone ==
    IF fl.expr = "" THEN TRUE ELSE fl.i > Len(byExpr[fl.expr].nextWriteTime)

\* for expr, runList := range sm.byExpr: the next expression, in any order
WriteNextExpr ==
    /\ fl.pc = "window"
    /\ ExprDone
    /\ \E expr \in fl.exprs :
          fl' = [fl EXCEPT !.expr = expr, !.i = 1, !.exprs = @ \ {expr}]
    /\ UNCHANGED << writeRest, heap, byExpr, runPc, timeout >>

\* Adjust the timer delay downwards if this window closes earlier.
Earlier(nextFlush, windowEnd) ==
    IF nextFlush > windowEnd THEN windowEnd ELSE nextFlush

\* for i, windowEnd := range runList.nextWriteTime: a window that is closed
\* (or any, if terminating) is prepared for writing; one that is open only
\* bounds nextFlush.
WriteWindow ==
    /\ fl.pc = "window"
    /\ ~ExprDone
    /\ LET windowEnd == byExpr[fl.expr].nextWriteTime[fl.i]
       IN  IF WindowClosed(windowEnd, fl.baseTime, fl.terminating)
           THEN fl' = [fl EXCEPT
                         !.pc = "paths",
                         !.paths = DOMAIN byExpr[fl.expr].path,
                         !.bw = Prepared(@, rollup[fl.expr].Windows[fl.i].Table)]
           ELSE fl' = [fl EXCEPT
                         !.nextFlush = Earlier(@, windowEnd),
                         !.i = @ + 1]
    /\ UNCHANGED << writeRest, heap, byExpr, runPc, timeout >>

\* A faulty variant: a write error ends the flush.
AfterErrorReturn(err, next) == IF err THEN "returned" ELSE next

\* A write error is logged and counted, and the walk goes on.
AfterError(err, next) == next

\* for path, rollup := range runList.path: one bucket, in any order.  If it
\* holds data it is appended, which writes the batch when it is full; err
\* says whether that write fails.  The bucket is emptied.
WriteBucket(err) ==
    /\ fl.pc = "paths"
    /\ fl.paths # {}
    /\ \E path \in fl.paths :
          LET addr == byExpr[fl.expr].path[path]
              row == Row(<< fl.expr, fl.i, path >>, fl.baseTime, fl.terminating)
              batch1 == fl.bw.rows \cup {row}
              writes == HasData(heap[addr], fl.i) /\ Full(fl.bw, row)
          IN  /\ err => writes
              /\ fl' = [fl EXCEPT
                           !.paths = @ \ {path},
                           !.bw = IF HasData(heap[addr], fl.i)
                                  THEN AfterAppend(@, row) ELSE @,
                           !.attempted = IF writes THEN Attempt(@, batch1) ELSE @,
                           !.failed = IF err THEN @ \cup batch1 ELSE @,
                           !.pc = AfterError(err, "paths")]
              /\ heap' = [heap EXCEPT ![addr] = Cleared(@, fl.i)]
    /\ UNCHANGED << writeRest, byExpr, runPc, timeout >>

\* The paths of the window are done: what is left of the batch is written
\* (err says whether that fails), and the window gets its next closing
\* time, which bounds nextFlush.
WriteWindowEnd(err) ==
    /\ fl.pc = "paths"
    /\ fl.paths = {}
    /\ err => fl.bw.rows # {}
    /\ LET windowEnd == nextTimeBoundary(fl.baseTime, rollup[fl.expr].Windows[fl.i].Window)
       IN  /\ byExpr' = [byExpr EXCEPT ![fl.expr].nextWriteTime[fl.i] = windowEnd]
           /\ fl' = [fl EXCEPT
                        !.bw = AfterWrite(@),
                        !.attempted = Attempt(@, fl.bw.rows),
                        !.failed = IF err THEN @ \cup fl.bw.rows ELSE @,
                        !.nextFlush = Earlier(@, windowEnd),
                        !.i = @ + 1,
                        !.pc = AfterError(err, "window")]
    /\ UNCHANGED << writeRest, heap, runPc, timeout >>

\* All expressions are walked: if not terminating the delay is submitted
\* to the timer; flush returns.
WriteEnd ==
    /\ fl.pc = "window"
    /\ ExprDone
    /\ fl.exprs = {}
    /\ fl' = [fl EXCEPT
                 !.pc = "returned",
                 !.submitted = IF fl.terminating THEN NoDue
                               ELSE DelayOf(fl.nextFlush, fl.baseTime)]
    /\ runPc' = "select"
    /\ UNCHANGED << writeRest, heap, byExpr, timeout >>

NextWrite ==
    \/ \E path \in Paths, value \in Values :
          fl.pc = "idle" /\ RunMetric(path, value, TRUE)
    \/ \E d \in TimeSteps : fl.pc = "idle" /\ Tick(d, MaxTicks)
    \/ fl.pc = "idle" /\ TimerFire
    \/ \E terminating \in BOOLEAN : WriteBegin(terminating)
    \/ WriteNextExpr
    \/ WriteWindow
    \/ \E err \in BOOLEAN : WriteBucket(err)
    \/ \E err \in BOOLEAN : WriteWindowEnd(err)
    \/ WriteEnd

SpecWrite == InitWrite /\ [][NextWrite]_vars

(* ------------------ the flush cycle with samples ----------------------- *)

\* The event loop, the timer and the listener, with no peer change and an
\* index writer that always receives: samples are folded between flushes
\* that close some windows and leave others open.
NextCycle ==
    \/ RunTimeout
    \/ \E path \in Paths, value \in Values : RunMetric(path, value, ~Found(path))
    \/ RunExit
    \/ TimerExit
    \/ TimerInterrupt
    \/ TimerFire
    \/ TimerLoop
    \/ \E d \in TimeSteps : Tick(d, MaxCycleTicks)
    \/ SignalExit

SpecCycle == Init /\ [][NextCycle]_vars

(* ------------------------- the path resolver ---------------------------- *)

\* A string is the sequence of its bytes, each written as a one-character
\* string.  ByteOrder lists the bytes in use in ascending byte value, the
\* order the sorted index compares members in.
ByteOrder ==
    << "(", "*", ".", "1", "2", "3", "4", "5", ":", "A", "[", "\\",
       "a", "b", "c", "d", "e", "f", "l", "r", "s", "t", "u", "x", "z" >>

\* Byte-wise comparison: a <= b.
RECURSIVE LexLeq(_, _)
LexLeq(a, b) ==
    LET Rank(c) == CHOOSE i \in DOMAIN ByteOrder : ByteOrder[i] = c
    IN  IF a = << >> THEN TRUE
        ELSE IF b = << >> THEN FALSE
        ELSE IF a[1] = b[1] THEN LexLeq(Tail(a), Tail(b))
        ELSE Rank(a[1]) < Rank(b[1])

\* strings.Join
RECURSIVE Join(_, _)
Join(a, sep) ==
    IF a = << >> THEN << >>
    ELSE IF Len(a) = 1 THEN a[1]
    ELSE a[1] \o sep \o Join(Tail(a), sep)

\* strings.Split, for a one-byte separator
RECURSIVE Split(_, _)
Split(str, sep) ==
    IF \A i \in DOMAIN str : str[i] # sep THEN << str >>
    ELSE LET i == MinOf({ j \in DOMAIN str : str[j] = sep })
         IN  << SubSeq(str, 1, i - 1) >> \o Split(SubSeq(str, i + 1, Len(str)), sep)

\* The depth field of an index member: a fixed-width decimal string, one
\* digit wide for the depths in use.
ToBigEndianString(l) == << << "1", "2", "3", "4", "5" >>[l] >>

\* Returns the max range parameter for a ZRANGEBYLEX.  The raw string
\* literals of the code are a backslash, and the four bytes backslash, x, f, f.
getMax(str) ==
    LET last1 == str[Len(str)]
        backslash == << "\\" >>
        xff == << "\\", "x", "f", "f" >>
    IN  IF last1 = "." \/ last1 = ":"
        THEN SubSeq(str, 1, Len(str) - 1) \o backslash \o << last1 >> \o xff
        ELSE str \o xff

\* The members of a set of strings in the index's order.
RECURSIVE Sorted(_)
Sorted(S) ==
    IF S = {} THEN << >>
    ELSE LET m == CHOOSE x \in S : \A y \in S : LexLeq(x, y)
         IN  << m >> \o Sorted(S \ {m})

\* ZRANGEBYLEX key min max: both bounds are given with "[", inclusive.
ZRangeByLex(index, min, max) ==
    Sorted({ m \in index : LexLeq(Tail(min), m) /\ LexLeq(m, Tail(max)) })

\* regexp.Compile for the expressions complexWild builds: a dot matches
\* any byte, ".*" any bytes; an unbalanced parenthesis does not compile.
Compiles(rawRegex) == \A i \in DOMAIN rawRegex : rawRegex[i] # "("

RECURSIVE Compile(_)
Compile(rawRegex) ==
    IF rawRegex = << >> THEN << >>
    ELSE IF rawRegex[1] = "." /\ Len(rawRegex) > 1 /\ rawRegex[2] = "*"
         THEN << "anystar" >> \o Compile(SubSeq(rawRegex, 3, Len(rawRegex)))
    ELSE IF rawRegex[1] = "."
         THEN << "any" >> \o Compile(Tail(rawRegex))
    ELSE << rawRegex[1] >> \o Compile(Tail(rawRegex))

RECURSIVE MatchHere(_, _)
MatchHere(regex, str) ==
    IF regex = << >> THEN TRUE
    ELSE IF regex[1] = "anystar"
         THEN \E k \in 0..Len(str) : MatchHere(Tail(regex), SubSeq(str, k + 1, Len(str)))
    ELSE IF str = << >> THEN FALSE
    ELSE IF regex[1] = "any" THEN MatchHere(Tail(regex), Tail(str))
    ELSE regex[1] = str[1] /\ MatchHere(Tail(regex), Tail(str))

\* regex.MatchString: the expression matches somewhere in the string.
RegexMatchString(regex, str) ==
    \E k \in 0..Len(str) : MatchHere(regex, SubSeq(str, k + 1, Len(str)))

TrueLiteral == << "t", "r", "u", "e" >>

\* json.Marshal of the response list: of a nil slice, null.
Marshal(responseList) ==
    IF responseList = << >> THEN [kind |-> "null", list |-> << >>]
    ELSE [kind |-> "list", list |-> responseList]

\* processQueryResults: each match is split on ":" and decodedString[1]
\* and decodedString[2] are taken, which panics on a split with fewer than
\* three fields.  strconv.ParseBool's error is dropped: what does not parse
\* is false.
processQueryResults(results, l) ==
    IF \E i \in DOMAIN results : Len(Split(results[i], ":")) < 3
    THEN [kind |-> "panic", list |-> << >>]
    ELSE Marshal([i \in DOMAIN results |->
                    LET decodedString == Split(results[i], ":")
                    IN  [Path |-> decodedString[2], Depth |-> l, Tenant |-> "",
                         Leaf |-> decodedString[3] = TrueLiteral]])

\* The lower bound of the scan for a literal prefix at depth l.
queryString(q, l) == << "[" >> \o ToBigEndianString(l) \o << ":" >> \o q

\* The member the index writer stores for a path: "<depth>:<path>:<leaf>".
Member(l, path, leaf) ==
    ToBigEndianString(l) \o << ":" >> \o path \o << ":" >> \o leaf

\* The index of the specification's scenario, and an index with more
\* members at depth 2: a path, the path with a longer last node (lower and
\* upper case), and a member with no leaf field.
PathAB == << "a", ".", "b" >>
PathABCD == PathAB \o << ".", "c", ".", "d" >>

ScenarioIndex ==
    { Member(5, PathABCD \o << ".", "e" >>, TrueLiteral),
      Member(5, PathABCD \o << ".", "f" >>, TrueLiteral),
      Member(4, PathABCD, << "f", "a", "l", "s", "e" >>) }

IndexMembers ==
    ScenarioIndex \cup
    { Member(2, PathAB, TrueLiteral),
      Member(2, PathAB \o << "c" >>, TrueLiteral),
      Member(2, PathAB \o << "A" >>, TrueLiteral),
      ToBigEndianString(2) \o << ":" >> \o PathAB }

\* The queries: exact, prefix with and without a final dot, and
\* multi-wildcard: the scenario's, one no member matches and one whose
\* expression does not compile.
ResolveQueries ==
    { PathAB,
      PathABCD \o << ".", "e" >>,
      PathAB \o << "*" >>,
      PathABCD \o << ".", "*" >>,
      << "a", ".", "*", ".", "c", ".", "*", ".", "e" >>,
      << "a", ".", "*", ".", "c", ".", "*", ".", "z" >>,
      << "a", ".", "*", ".", "c", ".", "*", ".", "(" >> }

\* One resolve is about to run: an index, a query, and whether the index
\* scan fails.
InitResolve ==
    /\ InitStore(Configs)
    /\ FoldIdle
    /\ ClassifyIdle
    /\ QueryIdle
    /\ WriteIdle
    /\ rs \in [pc : {"start"}, index : SUBSET IndexMembers, err : BOOLEAN,
               Query : ResolveQueries, l : {0}, kind : {""},
               splitWild : {<< >>}, lo : {<< >>}, hi : {<< >>},
               resp : {<< >>}, result : {[kind |-> "nil", list |-> << >>]}]

\* query() up to the answer of the index scan in noWild, simpleWild or
\* complexWild: an error or an empty answer returns nil.
ResolveScan ==
    /\ rs.pc = "start"
    /\ LET queryNodes == Split(rs.Query, ".")
           splitWild == Split(rs.Query, "*")
           kind == IF Len(splitWild) = 1 THEN "noWild"
                   ELSE IF Len(splitWild) = 2 /\ splitWild[2] = << >> THEN "simpleWild"
                   ELSE "complexWild"
           l == Len(queryNodes)
           q == IF kind = "noWild" THEN rs.Query \o << ":" >> ELSE splitWild[1]
           lo == queryString(q, l)
           hi == getMax(lo)
           resp == IF rs.err THEN << >> ELSE ZRangeByLex(rs.index, lo, hi)
       IN  rs' = [rs EXCEPT
                    !.l = l, !.kind = kind, !.splitWild = splitWild,
                    !.lo = lo, !.hi = hi, !.resp = resp,
                    !.result = [kind |-> "nil", list |-> << >>],
                    !.pc = IF rs.err \/ Len(resp) = 0 THEN "returned"
                           ELSE IF kind = "complexWild" THEN "filter"
                           ELSE "process"]
    /\ UNCHANGED << storeVars, foldVars, classifyVars, queryVars, writeVars >>

\* complexWild: the expression is built and compiled, and the scan's answer
\* is filtered with it; an expression that does not compile returns nil.
ResolveFilter ==
    /\ rs.pc = "filter"
    /\ LET rawRegex == Join(rs.splitWild, << ".", "*" >>)
           matches(m) == RegexMatchString(Compile(rawRegex), m)
       IN  IF Compiles(rawRegex)
           THEN rs' = [rs EXCEPT !.resp = SelectSeq(rs.resp, matches),
                                 !.pc = "process"]
           ELSE rs' = [rs EXCEPT !.result = [kind |-> "nil", list |-> << >>],
                                 !.pc = "returned"]
    /\ UNCHANGED << storeVars, foldVars, classifyVars, queryVars, writeVars >>

\* processQueryResults, and the return of its bytes.
ResolveProcess ==
    /\ rs.pc = "process"
    /\ LET result == processQueryResults(rs.resp, rs.l)
       IN  rs' = [rs EXCEPT !.result = result,
                            !.pc = IF result.kind = "panic" THEN "panicked"
                                   ELSE "returned"]
    /\ UNCHANGED << storeVars, foldVars, classifyVars, queryVars, writeVars >>

NextResolve ==
    \/ ResolveScan
    \/ ResolveFilter
    \/ ResolveProcess

SpecResolve == InitResolve /\ [][NextResolve]_vars

(* ------------------------------- claims -------------------------------- *)

\* A flush step of the event loop, and a terminating one.
FlushStep == RunTimeout \/ RunPeerChange \/ RunExit
TerminatingFlushStep == RunPeerChange \/ RunExit

\* The bucket (count, value) of path p for window i, through byPath.
Bucket(p, i) == [count |-> heap[byPath[p]].count[i], value |-> heap[byPath[p]].value[i]]

\* The table of window i of the expression path p is recorded under.
TableOf(p, i) == rollup[heap[byPath[p]].expr].Windows[i].Table

\* How many rows of the bag b were appended for path p in table t.
RowsFor(b, t, p) ==
    LET rows == { r \in DOMAIN b : r.table = t /\ r.path = p }
    IN  IF rows = {} THEN 0
        ELSE IF Cardinality(rows) = 1 THEN b[CHOOSE r \in rows : TRUE]
        ELSE Cardinality(rows) + 1

\* C1: when flush has just returned, every next_write_time[i] of every
\* expression is strictly later than the baseTime snapshot of that flush.
C1_NextWriteTimeAfterBaseTime ==
    last.op = "flush" =>
        \A expr \in DOMAIN byExpr :
            \A i \in DOMAIN byExpr[expr].nextWriteTime :
                byExpr[expr].nextWriteTime[i] > last.baseTime

\* C2: no folded sample is lost or written twice: a bucket holding samples
\* is never cleared or discarded without a row being appended for it, no row
\* is appended for a bucket with nothing new in it, and when the event loop
\* has exited, or is about to send the reconfiguration response, no bucket
\* holds a sample that was not appended.
C2_NoSampleLost ==
    /\ ~lost
    /\ ~dup
    /\ runPc \in { "done", "rsp" } => \A k \in Buckets : unwritten[k] = 0

\* C2's case: the loop has exited after a final flush that appended rows.
C2_Witness ==
    /\ runPc = "done"
    /\ batch # EmptyBag
    /\ samples > 0

\* C3: a flush(true) appends every bucket that had count > 0 on entry,
\* closed window or open, exactly once to the batch of its window's table,
\* with the bucket's value, and leaves every count and value at zero.
C3_TerminatingFlushDrains ==
    [][ TerminatingFlushStep =>
          /\ \A p \in DOMAIN byPath :
                \A i \in DOMAIN heap[byPath[p]].count :
                    Bucket(p, i).count > 0 =>
                        /\ RowsFor(batch', TableOf(p, i), p) = 1
                        /\ \E r \in DOMAIN batch' :
                             /\ r.table = TableOf(p, i)
                             /\ r.path = p
                             /\ r.value = Bucket(p, i).value
          /\ \A a \in DOMAIN heap' :
                \A i \in DOMAIN heap'[a].count :
                    heap'[a].count[i] = 0 /\ heap'[a].value[i] = Zero
      ]_vars

\* C3's case: a terminating flush at a time when no window has closed yet
\* (every boundary is later than 0) has appended rows.
C3_Witness ==
    /\ last.op = "flush"
    /\ last.terminating
    /\ last.baseTime = 0
    /\ BagCardinality(batch) > 1

\* C4: every row a flush emits is stamped with the flush's baseTime when
\* terminating, and when not terminating with the stored closing boundary of
\* its window, which is strictly before baseTime.
C4_RowsStamped ==
    [][ /\ TerminatingFlushStep => \A r \in DOMAIN batch' : r.time = now
        /\ RunTimeout =>
             \A r \in DOMAIN batch' :
                /\ r.time < now
                /\ \E expr \in DOMAIN byExpr :
                     \E i \in DOMAIN byExpr[expr].nextWriteTime :
                        /\ rollup[expr].Windows[i].Table = r.table
                        /\ r.path \in DOMAIN byExpr[expr].path
                        /\ byExpr[expr].nextWriteTime[i] = r.time
      ]_vars

\* C4's case: a non-terminating flush has emitted rows.
C4_Witness ==
    /\ last.op = "flush"
    /\ ~last.terminating
    /\ batch # EmptyBag

\* C5: a path is a key of byPath iff it is a key of byExpr[e].path for
\* exactly one expression e; that e is the rollup's recorded expr and the
\* classification of the path; both maps hold the same rollup object.
C5_TwoLevelIndex ==
    \A p \in Paths :
        LET holders == { e \in DOMAIN byExpr : p \in DOMAIN byExpr[e].path }
        IN  /\ p \in DOMAIN byPath <=> holders # {}
            /\ p \in DOMAIN byPath =>
                 /\ holders = { getExpression(p) }
                 /\ heap[byPath[p]].expr = getExpression(p)
                 /\ byExpr[getExpression(p)].path[p] = byPath[p]

\* C5's case: both paths are known, one under each expression, and a flush
\* has walked the run lists.
C5_Witness ==
    /\ DOMAIN byPath = Paths
    /\ last.op = "flush"

\* C6: accumulate sends exactly one message on the index-write channel for
\* a path that is not yet a key of byPath, inserting its all-zero rollup in
\* the same step, and sends nothing for a path that is already present,
\* whether or not flushes came between its samples.
C6_IndexWriteOnFirstSight ==
    [][ \A p \in Paths :
          LET sent == emitted'[p] - emitted[p]
              known == p \in DOMAIN byPath
          IN  /\ sent \in { 0, 1 }
              /\ \A value \in Values, room \in BOOLEAN :
                    RunMetric(p, value, room) => p \in DOMAIN byPath'
              /\ ~known /\ p \in DOMAIN byPath' =>
                    \/ sent = 1 /\ runPc' = "select"
                    \/ /\ sent = 0
                       /\ runPc' = "send"
                       /\ metric'.Path = p
                       /\ heap'[byPath'[p]] = NewRollup(getExpression(p))
              /\ ~known /\ p \notin DOMAIN byPath' => sent = 0
              /\ known /\ ~(runPc = "send" /\ metric.Path = p) =>
                    sent = 0 /\ ~(runPc' = "send" /\ metric'.Path = p)
              /\ known /\ runPc = "send" /\ metric.Path = p =>
                    \/ sent = 1 /\ runPc' = "select"
                    \/ sent = 0 /\ runPc' = "send"
      ]_vars

\* C6's case: a sample of a path that was found in byPath, after a flush
\* emptied the bucket its earlier sample went to; one message was sent.
C6_Witness ==
    /\ last.op = "accumulate"
    /\ last.found
    /\ heap[byPath[last.path]].count[1] = 1
    /\ emitted[last.path] = 1

\* C7, as claimed: over a whole run, reconfigurations included, each path is
\* emitted on the index-write channel at most once.
C7_EmittedOncePerRun ==
    \A p \in Paths : emitted[p] <= 1

\* C7, amended: since the start or the last reset, each path that is a key
\* of byPath has been emitted exactly once (the send done or in progress),
\* and no other path has been emitted.
C7_EmittedOncePerReset ==
    \A p \in Paths :
        emittedNow[p] + (IF runPc = "send" /\ metric.Path = p THEN 1 ELSE 0)
            = (IF p \in DOMAIN byPath THEN 1 ELSE 0)

\* C7's case: a path emitted before a reset was emitted again after it.
C7_Witness ==
    \E p \in Paths : emitted[p] = 2 /\ emittedNow[p] = 1

\* C8: while no shutdown is signalled the flush cycle is alive: the timer is
\* sleeping towards its next fire, or a notification waits on the timeout
\* channel.  (In any other state no fire can come: only flush(false) hands
\* the timer a duration, and flush(false) runs only on a notification.)
C8_FlushCycleAlive ==
    ~onExit => (timerPc = "sleeping" \/ timeout)

\* C9: while no shutdown is signalled, the fire that follows a duration d
\* which flush submitted to the timer at time t comes no later than t + d:
\* as long as that fire is outstanding, the clock has not passed t + d.
C9_FireNoLaterThanDue ==
    (~onExit /\ due # NoDue) => now <= due

\* C10: after shutdown is signalled the event loop performs exactly one
\* flush(true), the one it exits with: every terminating flush taken with
\* OnExit closed ends the loop.
C10_OneTerminatingFlushAfterExit ==
    [][ (onExit /\ TerminatingFlushStep) => runPc' = "done" ]_vars

\* C11: on a reconfiguration request the loop runs flush(true), then the
\* reset, and only then the response: when the loop is about to reset, its
\* last operation was a terminating flush; when it is about to send the
\* response that unblocks the requester, its last operation was the reset,
\* byPath and every run list's paths are empty, byExpr has one run list per
\* configured expression and every nextWriteTime is strictly later than the
\* reset's baseTime.
C11_ResetBeforeResponse ==
    /\ runPc = "reset" => (last.op = "flush" /\ last.terminating)
    /\ runPc = "rsp" =>
          /\ peerReq = "waiting"
          /\ last.op = "reset"
          /\ byPath = << >>
          /\ DOMAIN byExpr = DOMAIN rollup
          /\ \A e \in DOMAIN byExpr :
                /\ byExpr[e].path = << >>
                /\ DOMAIN byExpr[e].nextWriteTime = DOMAIN rollup[e].Windows
                /\ \A i \in DOMAIN byExpr[e].nextWriteTime :
                      byExpr[e].nextWriteTime[i] > last.baseTime

\* C11's case: the loop is about to unblock the requester after a reset,
\* some time after the start, that threw away the rollup of a path seen
\* before it.
C11_Witness ==
    /\ runPc = "rsp"
    /\ last.baseTime > 0
    /\ \E p \in Paths : emitted[p] > 0

\* C18: for every path and window index i, count[i] is the number of
\* samples accumulated for the path since window i was last flushed or the
\* rollup was created (none for a path that has no rollup), and a bucket
\* whose count is zero has value zero.
C18_CountIsSamplesSinceFlush ==
    \A k \in Buckets :
        IF k[1] \in DOMAIN byPath /\ k[2] \in DOMAIN heap[byPath[k[1]]].count
        THEN /\ Bucket(k[1], k[2]).count = unwritten[k]
             /\ Bucket(k[1], k[2]).count = 0 => Bucket(k[1], k[2]).value = Zero
        ELSE unwritten[k] = 0

\* C18's case: a non-terminating flush has emptied the bucket of a path that
\* had a sample, and another path holds a sample that came after it.
C18_Witness ==
    \E p, q \in DOMAIN byPath :
        /\ emitted[p] = 1
        /\ Bucket(p, 1).count = 0
        /\ Bucket(q, 1).count = 1
        /\ now > 0

\* C19: for a rollup whose expression uses MAX, every bucket that has taken
\* samples since it was last emptied holds the largest of them.
C19_MaxIsMaximum ==
    rollup[acc.expr].Method = MAX =>
        \A i \in DOMAIN seen :
            seen[i] # << >> => acc.value[i] = RatOf(SeqMax(seen[i]))

\* C20: for a rollup whose expression uses MIN (SUM), every bucket that has
\* taken samples since it was last emptied holds the smallest (the sum) of
\* them.
C20_MinIsMinimumSumIsSum ==
    \A i \in DOMAIN seen :
        seen[i] # << >> =>
            /\ rollup[acc.expr].Method = MIN => acc.value[i] = RatOf(SeqMin(seen[i]))
            /\ rollup[acc.expr].Method = SUM => acc.value[i] = RatOf(SeqSum(seen[i]))

\* C20's case: a MIN bucket, emptied by a flush before, has taken several
\* samples, all of them positive.
C20_Witness ==
    /\ rollup[acc.expr].Method = MIN
    /\ \E i, j \in DOMAIN seen :
          /\ Len(seen[i]) = 2
          /\ Len(seen[j]) = 3
          /\ \A n \in DOMAIN seen[j] : seen[j][n] > 0

\* C17: for a priority list that ends with the catchall, getExpression
\* returns the first expression of the list whose regular expression
\* matches the path, returns the catchall if and only if none of those
\* before it matches, and returns a key of the rollup definitions and of
\* byExpr.
C17_FirstMatchWins ==
    (cls # << >> /\ cls.returned) =>
        LET hits == Matching(cls.priority, cls.path)
        IN  /\ hits # {} => cls.expr = cls.priority[MinOf(hits)]
            /\ cls.expr = CATCHALL <=> hits = {}
            /\ cls.expr \in DOMAIN rollup
            /\ cls.expr \in DOMAIN byExpr

\* C17's case: two expressions of the list match the path, the one that
\* comes second in the configuration's key order stands first in the list,
\* and getExpression has returned.
C17_Witness ==
    /\ cls # << >>
    /\ cls.returned
    /\ Cardinality(Matching(cls.priority, cls.path)) = 2
    /\ cls.priority[1] = FooPlusExpr
    /\ cls.expr = FooPlusExpr

\* C13: no panic escapes the read worker, whatever the query and whenever
\* the requester closes the response channel.
C13_NoPanicEscapes ==
    wk.pc # "panicked"

\* C14: for a query with paths and an empty response channel of capacity
\* one, the worker writes at most once, has written exactly once when it
\* has returned and the channel is still open, writes nothing when its
\* probe found the channel closed, takes no value off the channel, and is
\* never blocked in its write.
C14_ProbeThenWrite ==
    ~NoQuery =>
        /\ wk.writes <= 1
        /\ (wk.pc = "returned" /\ ~ch.closed) => wk.writes = 1
        /\ wk.probe = "closed" => wk.writes = 0
        /\ wk.taken = 0
        /\ wk.pc = "write" => CanSend

\* C14's case: a worker for a query of two paths found the channel closed
\* at its probe and has returned.
C14_Witness ==
    /\ Len(qy.Query) = 2
    /\ wk.pc = "returned"
    /\ wk.probe = "closed"

\* C15: for every path of the query that has a window whose retention is
\* at least timeDelta, the table and step used for the path are those of
\* the first such window of the path's rollup definition.
C15_FirstWindowRetaining ==
    \A path \in DOMAIN wk.used :
        LET windows == rollup[getExpression(path)].Windows
            retaining == { n \in DOMAIN windows :
                             windows[n].Retention >= qy.timeDelta }
        IN  retaining # {} =>
                wk.used[path] =
                    [table |-> windows[MinOf(retaining)].Table,
                     step  |-> windows[MinOf(retaining)].Window \div Second]

\* C16: series[p] holds exactly the rows the backing store returned for
\* path p, from the table used for p, and nothing of another path.
C16_SeriesOfItsPath ==
    \A path \in DOMAIN wk.series :
        wk.series[path] = Scan(wk.used[path].table, path)

\* C12: whichever of its Append and Write calls fail, a flush returns with
\* the rollups, the window closing times and (when not terminating) the
\* submitted delay it has when every write succeeds, and every row it had
\* to write was in exactly one attempted batch, failed or not.
C12_WriteErrorsChangeNothing ==
    fl.pc = "returned" =>
        /\ heap = fl.expect.heap
        /\ byExpr = fl.expect.byExpr
        /\ ~fl.terminating => fl.submitted = fl.expect.delay
        /\ fl.attempted = fl.expect.rows
        /\ \A r \in DOMAIN fl.attempted : fl.attempted[r] = 1
        /\ fl.failed \subseteq DOMAIN fl.attempted

\* C12's case: a flush has returned after a failed write in one window and
\* a write that did not fail in another.
C12_Witness ==
    /\ fl.pc = "returned"
    /\ \E r \in DOMAIN fl.attempted \ fl.failed, f \in fl.failed : r.table # f.table

C22_DelayWithinBounds ==
    (last.op = "flush" /\ ~last.terminating /\ due # NoDue) =>
        LET earliest == MinOf(UNION { Range(byExpr[expr].nextWriteTime) :
                                        expr \in DOMAIN byExpr })
            delay == due - last.baseTime
            distance == earliest - last.baseTime
        IN  /\ delay >= Millisecond
            /\ delay <= Minute
            /\ (distance >= Millisecond /\ distance <= Minute) => delay = distance

\* C27: with no reset in between, every nextWriteTime[i] is a whole multiple
\* of its window's duration from the epoch, never decreases, and changes
\* only in a flush that processed window i (its boundary was before
\* baseTime, or the flush was terminating).
C27_BoundariesAdvanceOnlyWhenProcessed ==
    /\ [](\A expr \in DOMAIN byExpr :
             \A i \in DOMAIN byExpr[expr].nextWriteTime :
                byExpr[expr].nextWriteTime[i] % rollup[expr].Windows[i].Window = 0)
    /\ [][ \A expr \in DOMAIN byExpr :
              \A i \in DOMAIN byExpr[expr].nextWriteTime :
                 /\ byExpr'[expr].nextWriteTime[i] >= byExpr[expr].nextWriteTime[i]
                 /\ byExpr'[expr].nextWriteTime[i] # byExpr[expr].nextWriteTime[i] =>
                       \/ RunTimeout /\ byExpr[expr].nextWriteTime[i] < now
                       \/ RunExit
         ]_vars

\* C27's case: a flush(false) has advanced the boundary of the catchall's
\* first window past the one it set before, and left the second window's.
C27_Witness ==
    /\ last.op = "flush"
    /\ ~last.terminating
    /\ last.baseTime = Second + 3 * Millisecond
    /\ byExpr[CATCHALL].nextWriteTime = << Second + 4 * Millisecond, Second + 4 * Millisecond >>

\* C23: the range [lo, hi] a prefix resolve builds for the literal prefix P
\* at depth L contains every index member of depth L whose path starts with
\* P, whatever byte follows P in the member, and no member of another depth.
C23_RangeHoldsThePrefix ==
    (rs.pc # "start" /\ ~rs.err /\ rs.kind = "simpleWild") =>
        \A m \in rs.index :
            LET inRange == LexLeq(Tail(rs.lo), m) /\ LexLeq(m, Tail(rs.hi))
                depth == Split(m, ":")[1]
                path == Split(m, ":")[2]
                P == rs.splitWild[1]
                startsWithP == Len(P) <= Len(path) /\ SubSeq(path, 1, Len(P)) = P
            IN  /\ (depth = ToBigEndianString(rs.l) /\ startsWithP) => inRange
                /\ inRange => depth = ToBigEndianString(rs.l)

\* C24: a resolve of a query with no wildcard returns at most one entry,
\* every entry it returns has the query as its path, and no index member
\* whose path is a proper extension of the query lies in the scanned range.
C24_ExactLookupReturnsTheQuery ==
    (rs.pc = "returned" /\ rs.kind = "noWild" /\ ~rs.err) =>
        /\ Len(rs.result.list) <= 1
        /\ \A i \in DOMAIN rs.result.list : rs.result.list[i].Path = rs.Query
        /\ \A m \in rs.index :
              LET path == Split(m, ":")[2]
              IN  (LexLeq(Tail(rs.lo), m) /\ LexLeq(m, Tail(rs.hi))) =>
                     ~(/\ Len(path) > Len(rs.Query)
                       /\ SubSeq(path, 1, Len(rs.Query)) = rs.Query)

\* C25: resolve returns no entries (nil, or the JSON of an empty list) when
\* the index scan errors, when the scan returns no member, when the
\* multi-wildcard expression does not compile and when the filter rejects
\* every scanned member; and resolve never panics, whatever the members.
C25_EmptyOnFailureAndNoPanic ==
    LET nothingFound ==
            \/ rs.err
            \/ rs.resp = << >>
            \/ rs.kind = "complexWild" /\ ~Compiles(Join(rs.splitWild, << ".", "*" >>))
    IN  /\ rs.pc # "panicked"
        /\ (rs.pc = "returned" /\ nothingFound) => rs.result.kind \in {"nil", "null"}

\* C26: with the index of the scenario, the resolve of a.*.c.*.e returns
\* exactly one entry, with path a.b.c.d.e; and a multi-wildcard resolve
\* returns no entry whose path does not end with the query's final literal
\* segment.
C26_MultiWildcardEndsWithFinalSegment ==
    (rs.pc = "returned" /\ rs.kind = "complexWild" /\ ~rs.err) =>
        LET final == rs.splitWild[Len(rs.splitWild)]
            endsWithFinal(path) ==
                /\ Len(final) <= Len(path)
                /\ SubSeq(path, Len(path) - Len(final) + 1, Len(path)) = final
        IN  /\ \A i \in DOMAIN rs.result.list : endsWithFinal(rs.result.list[i].Path)
            /\ (rs.index = ScenarioIndex
                /\ rs.Query = << "a", ".", "*", ".", "c", ".", "*", ".", "e" >>) =>
                   /\ Len(rs.result.list) = 1
                   /\ rs.result.list[1].Path = PathABCD \o << ".", "e" >>

====
